---- MODULE Spec2Model ----
(***************************************************************************)
(* AtVenuDataFetcher (8_13_test_streamlit.py): the GraphQL client, the     *)
(* five cursor-pagination collectors, the hierarchical show traversal and  *)
(* the count/merchandise join of fetch_all_data, run against a GraphQL     *)
(* server that answers every request from the collection it holds; and     *)
(* main, which checks the dates, calls fetch_data and builds the export.   *)
(*                                                                         *)
(* Python values: None is Null, a dict is a record (a key the dict lacks   *)
(* is a field the record lacks), a list is a sequence.  A response body is *)
(* the parsed JSON; result['data'][...] is flattened to body.data, the     *)
(* connection (or, for counts, the show with its settlements list).        *)
(***************************************************************************)
EXTENDS Integers, Sequences, FiniteSets, TLC

\* ---------------------------------------------------------------- bounds
\* Requests one fetch_all_data call may issue before the exploration stops.
MaxRequests == 7
\* Pages the server splits one collection into.
MaxPages == 2

\* ------------------------------------------------------- Python constants
Null == -1
HTTP_OK == 200

\* ------------------------------------------------------------- sequences
RECURSIVE Flatten(_)
Flatten(ss) == IF ss = <<>> THEN <<>> ELSE Head(ss) \o Flatten(Tail(ss))

RECURSIVE SumSeq(_)
SumSeq(s) == IF s = <<>> THEN 0 ELSE Head(s) + SumSeq(Tail(s))

Range(s) == {s[i] : i \in DOMAIN s}

\* The ways of cutting list l into exactly p consecutive non-empty pages (one
\* page may hold the empty list).
RECURSIVE SplitsN(_, _)
SplitsN(l, p) ==
    IF p = 1 THEN {<<l>>}
    ELSE UNION {{<<SubSeq(l, 1, k)>> \o rest :
                    rest \in SplitsN(SubSeq(l, k + 1, Len(l)), p - 1)} :
                k \in 1..(Len(l) - 1)}

\* The page layouts of list l: up to MaxPages non-empty pages, and for a list
\* of one node also an empty page before it.
Splits(l) ==
    UNION {SplitsN(l, p) : p \in 1..MaxPages}
    \cup (IF Len(l) = 1 /\ MaxPages >= 2 THEN {<<<<>>, l>>} ELSE {})

\* ------------------------------------------------- what the server holds
A1 == [uuid |-> "a1", artistName |-> "BandX"]
A2 == [uuid |-> "a2", artistName |-> "BandY"]
AccountLists == {<<>>, <<A1>>, <<A1, A2>>}

T1 == [uuid |-> "t1", tourName |-> "TourY"]
T2 == [uuid |-> "t2", tourName |-> "TourZ"]
TourLists == {<<>>, <<T1>>, <<T1, T2>>}

Loc1 == [city |-> "Austin", stateProvince |-> "TX", country |-> "US"]
S1 == [uuid |-> "s1", showDate |-> 1, location |-> Loc1]
S2 == [uuid |-> "s2", showDate |-> 2, location |-> Loc1]
S3 == [uuid |-> "s3", showDate |-> 2, location |-> Loc1]
ShowLists == {<<>>, <<S1>>, <<S1, S2>>}

\* merchVariants of the catalog: v1 with a catalog price, v2 without one.
V1 == [uuid |-> "v1", sku |-> "A1", size |-> "M", price |-> 3]
V2 == [uuid |-> "v2", sku |-> "B2", size |-> "L", price |-> Null]
V1b == [uuid |-> "v1", sku |-> "Z9", size |-> "S", price |-> 4]
M1 == [name |-> "Tee", merchVariants |-> <<V2, V1>>]
M2 == [name |-> "Cap", merchVariants |-> <<V1b>>]
M0 == [name |-> "Pin", merchVariants |-> <<>>]
MerchLists == {<<>>, <<M0, M1, M2>>}

Count(v, po, cin, cout, comps, adds) ==
    [merchVariantUuid |-> v, priceOverride |-> po, countIn |-> cin,
     countOut |-> cout, comps |-> comps,
     merchAdds |-> [i \in DOMAIN adds |-> [quantity |-> adds[i]]]]
K1 == Count("v1", Null, 10, Null, 2, <<>>)
K2 == Count("v2", 5, 4, 1, Null, <<2, Null>>)
K3 == Count("v1", 0, Null, 3, 0, <<1>>)
K4 == Count("v2", Null, 6, 2, 1, <<>>)
K9 == Count("v9", 7, 5, 1, 0, <<>>)
CountLists == {<<>>, <<K1>>, <<K9, K2>>, <<K3, K4>>}
\* The counts of a show's second settlement entry.
K5 == Count("v1", Null, 77, 0, 0, <<>>)
K6 == Count("v2", 9, 78, 0, 0, <<>>)

\* endCursor of page i, and the page a cursor asks for.
EndCursorOf(i) == 100 + i
PageIndexOf(c) == IF c = Null THEN 1 ELSE c - 100 + 1

Connection(layout, i) ==
    [nodes |-> layout[i],
     pageInfo |-> [hasNextPage |-> i < Len(layout), endCursor |-> EndCursorOf(i)]]

\* A plain collection: its pages in order.
Pages(layout) == [i \in DOMAIN layout |-> Connection(layout, i)]

\* A second settlement entry of a show: other counts, other page info.
OtherSettlement(first) ==
    [mainCounts |->
        [nodes |-> <<K5, K6>>,
         pageInfo |-> [hasNextPage |-> ~first.pageInfo.hasNextPage,
                       endCursor |-> first.pageInfo.endCursor + 50]]]

\* The counts of a show: every page is the show with its settlements list,
\* holding no entry, one entry, or two.
Settlements(layout, i, entries) ==
    LET first == Connection(layout, i) IN
    [settlements |->
        IF entries = 0 THEN <<>>
        ELSE IF entries = 1 THEN <<[mainCounts |-> first]>>
        ELSE <<[mainCounts |-> first], OtherSettlement(first)>>]

CountPages(layout, entries) ==
    [i \in DOMAIN layout |-> Settlements(layout, i, entries)]

Collections(lists) == {Pages(layout) : layout \in UNION {Splits(l) : l \in lists}}

\* A server that reports hasNextPage true on every page: after the last page
\* of the layout its cursor leads to the first again.
EndlessPages(layout) ==
    [i \in DOMAIN layout |->
        [nodes |-> layout[i],
         pageInfo |-> [hasNextPage |-> TRUE,
                       endCursor |-> EndCursorOf(i % Len(layout))]]]

\* The accounts collections: the finite ones, and two that never end.
AccountCollections ==
    Collections(AccountLists) \cup {EndlessPages(<<<<A1>>>>), EndlessPages(<<<<A1>>, <<A2>>>>)}

CountCollections ==
    {CountPages(layout, 1) : layout \in UNION {Splits(l) : l \in CountLists}}
    \cup {CountPages(layout, 2) : layout \in Splits(<<K9, K2>>)}
    \cup {CountPages(<<<<>>>>, 0)}

\* The (start, end) pairs a caller passes: in order, and reversed.
DateRanges == {<<1, 2>>, <<2, 1>>}

\* ----------------------------------------------------------------- state
VARIABLES
    pc,                 \* where fetch_all_data stands
    start_date, end_date,
    cursor,             \* the running collector's cursor
    accounts, tours, shows, merch_items, counts,   \* the collectors' lists
    ai, ti, si,         \* positions of the three for loops
    all_shows,          \* fetch_shows_in_date_range's result so far
    merchandise_cache,  \* account uuid -> merchandise
    all_data,           \* fetch_all_data's records so far
    ret,                \* what fetch_all_data gave its caller
    srv,                \* the pages of the collection being fetched
    reqlog,             \* every request issued, in order
    opened,             \* every collection started: kind, key, pages, requests before
    closed,             \* every collector return: kind, result, requests by then
    sold_arg, sold_ret, \* calculate_sold's argument and result
    last,               \* the last response and what execute_query made of it
    export              \* the table main builds from the fetched data

locals == <<cursor, accounts, tours, shows, merch_items, counts, ai, ti, si,
            all_shows, merchandise_cache, all_data>>
vars == <<pc, start_date, end_date, locals, ret, srv, reqlog, opened, closed, last,
          sold_arg, sold_ret, export>>

NoReturn == [returned |-> FALSE]
Returned(v) == [returned |-> TRUE, value |-> v]
NoCall == [called |-> FALSE]
NoExport == [made |-> FALSE]

\* ---------------------------------------------------------- execute_query
Raised == [raised |-> TRUE]
Result(v) == [raised |-> FALSE, value |-> v]

\* requests.post raises when the call does not complete; a status other than
\* 200 raises; a body with an 'errors' key raises; else the body is returned.
ExecuteQuery(response) ==
    IF ~response.completed THEN Raised
    ELSE IF response.status_code = HTTP_OK
         THEN IF "errors" \in DOMAIN response.body THEN Raised
              ELSE Result(response.body)
         ELSE Raised

\* -------------------------------------------------------------- the server
Ok(data) == [completed |-> TRUE, status_code |-> HTTP_OK, body |-> [data |-> data]]
NoConnection == [completed |-> FALSE]
ServerError == [completed |-> TRUE, status_code |-> 500, body |-> [message |-> "down"]]
QueryErrors ==
    [completed |-> TRUE, status_code |-> HTTP_OK, body |-> [errors |-> <<"bad">>]]
EmptyErrors(data) ==
    [completed |-> TRUE, status_code |-> HTTP_OK,
     body |-> [data |-> data, errors |-> <<>>]]

\* What the server may answer to a request carrying cursor c.
Responses(c) ==
    LET i == PageIndexOf(c) IN
    IF i \in DOMAIN srv
    THEN {Ok(srv[i]), NoConnection, ServerError, QueryErrors, EmptyErrors(srv[i])}
    ELSE {QueryErrors}

\* -------------------------------------------------- the collectors' steps
Extend(list, nodes) == list \o nodes
\* LoopBreaks with no page ever ending the loop.
LoopBreaksNever(pageInfo) == FALSE
\* LoopBreaks with the test inverted.
LoopBreaksOnNextPage(pageInfo) == pageInfo.hasNextPage
\* if not pageInfo['hasNextPage']: break
LoopBreaks(pageInfo) == ~pageInfo.hasNextPage
\* NextCursor leaving the cursor None.
NextCursorStaysNone(pageInfo) == Null
\* cursor = pageInfo['endCursor']
NextCursor(pageInfo) == pageInfo.endCursor

Request(query, variables) == [query |-> query, variables |-> variables]

\* Raise with the exception swallowed and the records so far returned.
RaiseReturnsPartial ==
    /\ pc' = "done"
    /\ ret' = Returned(all_data)
    /\ UNCHANGED <<locals, srv, start_date, end_date, closed>>

\* An exception leaves fetch_all_data: nothing is returned.
Raise ==
    /\ pc' = "raised"
    /\ UNCHANGED <<locals, ret, srv, start_date, end_date, closed>>

Issue(req, response) ==
    /\ Len(reqlog) < MaxRequests
    /\ reqlog' = Append(reqlog, req)
    /\ last' = [called |-> TRUE, response |-> response, outcome |-> ExecuteQuery(response)]
    /\ UNCHANGED <<opened, sold_arg, sold_ret, export>>

\* A collector is entered: its list is empty, its cursor None, and the server
\* holds the collection it will page through.
Open(kind, key, collection) ==
    /\ cursor' = Null
    /\ srv' = collection
    /\ opened' = Append(opened, [kind |-> kind, key |-> key, pages |-> collection,
                                  before |-> Len(reqlog)])

\* A collector returns its list.
Close(kind, result) ==
    closed' = Append(closed, [kind |-> kind, result |-> result, after |-> Len(reqlog')])

\* fetch_all_data(start, end) -> fetch_shows_in_date_range -> fetch_accounts
FetchAllData(start, end) ==
    /\ start_date' = start /\ end_date' = end
    /\ \E c \in AccountCollections : Open("accounts", "organization", c)
    /\ pc' = "fetch_accounts"
    /\ accounts' = <<>>
    /\ all_shows' = <<>>
    /\ all_data' = <<>>
    /\ UNCHANGED <<tours, shows, merch_items, counts, ai, ti, si,
                   merchandise_cache, ret, reqlog, last, closed, sold_arg, sold_ret, export>>

\* fetch_data(start_date, end_date), called with any pair of dates.
FetchData ==
    /\ pc = "idle"
    /\ \E d \in DateRanges : FetchAllData(d[1], d[2])

\* One iteration of fetch_accounts' loop.
FetchAccounts ==
    /\ pc = "fetch_accounts"
    /\ \E response \in Responses(cursor) :
        /\ Issue(Request("accounts", [cursor |-> cursor]), response)
        /\ LET result == ExecuteQuery(response) IN
           IF result.raised THEN Raise
           ELSE LET accounts_data == result.value.data IN
                /\ accounts' = Extend(accounts, accounts_data.nodes)
                /\ IF LoopBreaks(accounts_data.pageInfo)
                   THEN /\ pc' = "for_account" /\ ai' = 1 /\ cursor' = cursor
                        /\ Close("accounts", accounts')
                   ELSE /\ pc' = pc /\ ai' = ai
                        /\ cursor' = NextCursor(accounts_data.pageInfo)
                        /\ closed' = closed
                /\ UNCHANGED <<tours, shows, merch_items, counts, ti, si, all_shows,
                               merchandise_cache, all_data, ret, srv,
                               start_date, end_date>>

\* for account in accounts: the next account's fetch_tours is entered, or the
\* traversal is over and fetch_all_data's loop over the shows begins.
ForAccount ==
    /\ pc = "for_account"
    /\ IF ai <= Len(accounts)
       THEN /\ pc' = "fetch_tours"
            /\ tours' = <<>>
            /\ \E c \in Collections(TourLists) : Open("tours", accounts[ai].uuid, c)
            /\ UNCHANGED <<si, merchandise_cache>>
       ELSE /\ pc' = "for_show"
            /\ si' = 1
            /\ merchandise_cache' = <<>>
            /\ UNCHANGED <<tours, cursor, srv, opened>>
    /\ UNCHANGED <<accounts, shows, merch_items, counts, ai, ti, all_shows, all_data,
                   ret, reqlog, last, start_date, end_date, closed, sold_arg, sold_ret, export>>

\* One iteration of fetch_tours' loop.
FetchTours ==
    /\ pc = "fetch_tours"
    /\ \E response \in Responses(cursor) :
        /\ Issue(Request("tours", [accountUuid |-> accounts[ai].uuid, cursor |-> cursor]),
                 response)
        /\ LET result == ExecuteQuery(response) IN
           IF result.raised THEN Raise
           ELSE LET tours_data == result.value.data IN
                /\ tours' = Extend(tours, tours_data.nodes)
                /\ IF LoopBreaks(tours_data.pageInfo)
                   THEN /\ pc' = "for_tour" /\ ti' = 1 /\ cursor' = cursor
                        /\ Close("tours", tours')
                   ELSE /\ pc' = pc /\ ti' = ti
                        /\ cursor' = NextCursor(tours_data.pageInfo)
                        /\ closed' = closed
                /\ UNCHANGED <<accounts, shows, merch_items, counts, ai, si, all_shows,
                               merchandise_cache, all_data, ret, srv,
                               start_date, end_date>>

\* for tour in tours: the next tour's fetch_shows is entered, or the account
\* is done.
ForTour ==
    /\ pc = "for_tour"
    /\ IF ti <= Len(tours)
       THEN /\ pc' = "fetch_shows"
            /\ shows' = <<>>
            /\ \E c \in Collections(ShowLists) : Open("shows", tours[ti].uuid, c)
            /\ UNCHANGED ai
       ELSE /\ pc' = "for_account"
            /\ ai' = ai + 1
            /\ UNCHANGED <<shows, cursor, srv, opened>>
    /\ UNCHANGED <<accounts, tours, merch_items, counts, ti, si, all_shows,
                   merchandise_cache, all_data, ret, reqlog, last,
                   start_date, end_date, closed, sold_arg, sold_ret, export>>

\* Annotate attaching the first account fetched, whatever the loop's account.
AnnotateFirstAccount(show, account, tour) ==
    [uuid |-> show.uuid, showDate |-> show.showDate, location |-> show.location,
     account |-> accounts[1], tour |-> tour]

\* show['account'] = account; show['tour'] = tour
Annotate(show, account, tour) ==
    [uuid |-> show.uuid, showDate |-> show.showDate, location |-> show.location,
     account |-> account, tour |-> tour]

AnnotateAll(list, account, tour) ==
    [i \in DOMAIN list |-> Annotate(list[i], account, tour)]

\* One iteration of fetch_shows' loop; when it returns, every show is
\* annotated and appended to all_shows.
FetchShows ==
    /\ pc = "fetch_shows"
    /\ \E response \in Responses(cursor) :
        /\ Issue(Request("shows", [tourUuid |-> tours[ti].uuid, startDate |-> start_date,
                                   endDate |-> end_date, cursor |-> cursor]),
                 response)
        /\ LET result == ExecuteQuery(response) IN
           IF result.raised THEN Raise
           ELSE LET shows_data == result.value.data
                    fetched == Extend(shows, shows_data.nodes) IN
                /\ shows' = fetched
                /\ IF LoopBreaks(shows_data.pageInfo)
                   THEN /\ pc' = "for_tour"
                        /\ ti' = ti + 1
                        /\ cursor' = cursor
                        /\ all_shows' = Extend(all_shows,
                                               AnnotateAll(fetched, accounts[ai], tours[ti]))
                        /\ Close("shows", fetched)
                   ELSE /\ pc' = pc
                        /\ ti' = ti
                        /\ cursor' = NextCursor(shows_data.pageInfo)
                        /\ all_shows' = all_shows
                        /\ closed' = closed
                /\ UNCHANGED <<accounts, tours, merch_items, counts, ai, si,
                               merchandise_cache, all_data, ret, srv,
                               start_date, end_date>>

\* --------------------------------------------------------- calculate_sold
\* dict.get(key, default), and Python's `x or 0`.
Get(d, key, default) == IF key \in DOMAIN d THEN d[key] ELSE default
\* OrZero letting None through.
OrZeroOnlyForZero(x) == x
OrZero(x) == IF x = Null \/ x = 0 THEN 0 ELSE x

AddQuantity(add) == OrZero(Get(add, "quantity", 0))

CalculateSold(count) ==
    LET count_in == OrZero(Get(count, "countIn", 0))
        count_out == OrZero(Get(count, "countOut", 0))
        comps == OrZero(Get(count, "comps", 0))
        merchAdds == Get(count, "merchAdds", <<>>)
        adds == SumSeq([i \in DOMAIN merchAdds |-> AddQuantity(merchAdds[i])])
    IN count_in + adds - count_out - comps

\* The count records calculate_sold is tried on: each of countIn, countOut,
\* comps and merchAdds missing or present, each number None, 0 or positive,
\* each add with its quantity missing, None, 0 or positive.
MaxAdds == 2
SoldKeys == {"countIn", "countOut", "comps", "merchAdds"}
SoldValues == {Null, 0, 2, 10}
AddValues == {[quantity |-> Null], [quantity |-> 0], [quantity |-> 3], [note |-> 1]}
AddLists == UNION {[1..n -> AddValues] : n \in 0..MaxAdds}
SoldInputs ==
    UNION {{[k \in keys |-> IF k = "merchAdds" THEN adds ELSE vals[k]] :
              vals \in [keys \ {"merchAdds"} -> SoldValues], adds \in AddLists} :
           keys \in SUBSET SoldKeys}

\* ------------------------------------------------------------------ join
Nothing == [some |-> FALSE]
Some(x) == [some |-> TRUE, value |-> x]

\* next((... for ... if ...), None): the first hit, or None.
NextOf(hits) == IF hits = <<>> THEN Nothing ELSE Some(Head(hits))

HasVariant(item, uuid) ==
    \E j \in DOMAIN item.merchVariants : item.merchVariants[j].uuid = uuid

\* MerchItemOf taking the last such item of the merchandise.
MerchItemOfLast(merchandise, count) ==
    LET hits == SelectSeq(merchandise, LAMBDA item : HasVariant(item, count.merchVariantUuid))
    IN IF hits = <<>> THEN Nothing ELSE Some(hits[Len(hits)])

\* The first item of the merchandise one of whose variants has the count's uuid.
MerchItemOf(merchandise, count) ==
    NextOf(SelectSeq(merchandise, LAMBDA item : HasVariant(item, count.merchVariantUuid)))

\* The first variant of the item with the count's uuid.
VariantOf(merch_item, count) ==
    NextOf(SelectSeq(merch_item.merchVariants,
                     LAMBDA v : v.uuid = count.merchVariantUuid))

\* The 'N/A' of the Size and SKU columns; the Price column holds numbers, and
\* its 'N/A' is the number PriceNA, which no price is.
NAText == "N/A"
PriceNA == -2

\* Python's truth of a price override: None and 0 are false.
Truthy(x) == x # Null /\ x # 0

\* count['priceOverride'] or (variant['price'] if variant else 'N/A')
Price(count, variant) ==
    IF Truthy(count.priceOverride) THEN count.priceOverride
    ELSE IF variant.some THEN variant.value.price ELSE PriceNA

Venue(location) == <<location.city, location.stateProvince, location.country>>

SoldRecord(show, merch_item, variant, count) ==
    [Band |-> show.account.artistName,
     TourName |-> show.tour.tourName,
     Venue |-> Venue(show.location),
     ProductName |-> merch_item.name,
     Size |-> IF variant.some THEN variant.value.size ELSE NAText,
     SKU |-> IF variant.some THEN variant.value.sku ELSE NAText,
     In |-> OrZero(Get(count, "countIn", 0)),
     Out |-> OrZero(Get(count, "countOut", 0)),
     Sold |-> CalculateSold(count),
     ShowDate |-> show.showDate,
     Price |-> Price(count, variant)]

\* What one count record adds to all_data: a record, or nothing.
JoinCount(show, merchandise, count) ==
    LET merch_item == MerchItemOf(merchandise, count) IN
    IF merch_item.some
    THEN <<SoldRecord(show, merch_item.value, VariantOf(merch_item.value, count), count)>>
    ELSE <<>>

\* JoinShow leaving the loop at the first count that matches no variant.
JoinShowStopsAtMiss(show, merchandise, list) ==
    LET misses == {i \in DOMAIN list : ~MerchItemOf(merchandise, list[i]).some}
        stop == IF misses = {} THEN Len(list)
                ELSE (CHOOSE i \in misses : \A j \in misses : i <= j) - 1
    IN Flatten([i \in 1..stop |-> JoinCount(show, merchandise, list[i])])

\* JoinShow going through the counts last to first.
JoinShowBackwards(show, merchandise, list) ==
    Flatten([i \in DOMAIN list |-> JoinCount(show, merchandise, list[Len(list) + 1 - i])])

\* for count in counts: ...
JoinShow(show, merchandise, list) ==
    Flatten([i \in DOMAIN list |-> JoinCount(show, merchandise, list[i])])

\* The show lists the show loop is started on: the shows s1, s2, s3 of tour
\* t1, fetched under these accounts in this order.
AccountOrders == {<<>>, <<A1>>, <<A1, A1>>, <<A1, A2>>, <<A1, A2, A1>>}
ShowsInRange ==
    {[i \in DOMAIN order |-> Annotate(<<S1, S2, S3>>[i], order[i], T1)] :
        order \in AccountOrders}

\* -------------------------------------------- fetch_all_data's show loop
\* CacheMiss with the cache never consulted.
CacheMissAlways(cache, account_uuid) == TRUE
\* if account_uuid not in merchandise_cache
CacheMiss(cache, account_uuid) == account_uuid \notin DOMAIN cache

\* ForShow going to the next show, its counts unfetched, when the account's
\* merchandise is cached.
ForShowSkipsCached ==
    /\ pc = "for_show"
    /\ IF si <= Len(all_shows)
       THEN LET account_uuid == all_shows[si].account.uuid IN
            IF CacheMiss(merchandise_cache, account_uuid)
            THEN /\ pc' = "fetch_merchandise"
                 /\ merch_items' = <<>>
                 /\ \E c \in Collections(MerchLists) : Open("merchandise", account_uuid, c)
                 /\ UNCHANGED <<si, ret>>
            ELSE /\ pc' = "for_show"
                 /\ si' = si + 1
                 /\ UNCHANGED <<merch_items, cursor, srv, opened, ret>>
       ELSE /\ pc' = "done"
            /\ ret' = Returned(all_data)
            /\ UNCHANGED <<merch_items, cursor, srv, opened, si>>
    /\ UNCHANGED <<accounts, tours, shows, counts, ai, ti, all_shows,
                   merchandise_cache, all_data, reqlog, last, start_date, end_date,
                   closed, sold_arg, sold_ret, export>>

\* ForShow starting the traversal over after the last show.
ForShowThenTraversal ==
    /\ pc = "for_show"
    /\ IF si <= Len(all_shows)
       THEN LET account_uuid == all_shows[si].account.uuid IN
            IF CacheMiss(merchandise_cache, account_uuid)
            THEN /\ pc' = "fetch_merchandise"
                 /\ merch_items' = <<>>
                 /\ \E c \in Collections(MerchLists) : Open("merchandise", account_uuid, c)
            ELSE /\ pc' = "enter_counts"
                 /\ UNCHANGED <<merch_items, cursor, srv, opened>>
       ELSE /\ pc' = "fetch_accounts"
            /\ \E c \in AccountCollections : Open("accounts", "organization", c)
            /\ UNCHANGED merch_items
    /\ UNCHANGED <<accounts, tours, shows, counts, ai, ti, si, all_shows,
                   merchandise_cache, all_data, ret, reqlog, last, start_date, end_date,
                   closed, sold_arg, sold_ret, export>>

\* for show in shows: the merchandise of the show's account is fetched unless
\* cached; after the last show all_data is returned.
ForShow ==
    /\ pc = "for_show"
    /\ IF si <= Len(all_shows)
       THEN LET account_uuid == all_shows[si].account.uuid IN
            IF CacheMiss(merchandise_cache, account_uuid)
            THEN /\ pc' = "fetch_merchandise"
                 /\ merch_items' = <<>>
                 /\ \E c \in Collections(MerchLists) : Open("merchandise", account_uuid, c)
                 /\ ret' = ret
            ELSE /\ pc' = "enter_counts"
                 /\ UNCHANGED <<merch_items, cursor, srv, opened, ret>>
       ELSE /\ pc' = "done"
            /\ ret' = Returned(all_data)
            /\ UNCHANGED <<merch_items, cursor, srv, opened>>
    /\ UNCHANGED <<accounts, tours, shows, counts, ai, ti, si, all_shows,
                   merchandise_cache, all_data, reqlog, last, start_date, end_date,
                   closed, sold_arg, sold_ret, export>>

\* One iteration of fetch_merchandise's loop; its result is cached.
FetchMerchandise ==
    /\ pc = "fetch_merchandise"
    /\ LET account_uuid == all_shows[si].account.uuid IN
       \E response \in Responses(cursor) :
        /\ Issue(Request("merchandise", [uuid |-> account_uuid, cursor |-> cursor]),
                 response)
        /\ LET result == ExecuteQuery(response) IN
           IF result.raised THEN Raise
           ELSE LET merchItems == result.value.data
                    fetched == Extend(merch_items, merchItems.nodes) IN
                /\ merch_items' = fetched
                /\ IF LoopBreaks(merchItems.pageInfo)
                   THEN /\ pc' = "enter_counts"
                        /\ cursor' = cursor
                        /\ merchandise_cache' =
                               (account_uuid :> fetched) @@ merchandise_cache
                        /\ Close("merchandise", fetched)
                   ELSE /\ pc' = pc
                        /\ cursor' = NextCursor(merchItems.pageInfo)
                        /\ merchandise_cache' = merchandise_cache
                        /\ closed' = closed
                /\ UNCHANGED <<accounts, tours, shows, counts, ai, ti, si, all_shows,
                               all_data, ret, srv, start_date, end_date>>

\* merchandise = merchandise_cache[account_uuid]; fetch_counts is entered.
EnterCounts ==
    /\ pc = "enter_counts"
    /\ pc' = "fetch_counts"
    /\ counts' = <<>>
    /\ \E c \in CountCollections : Open("counts", all_shows[si].uuid, c)
    /\ UNCHANGED <<accounts, tours, shows, merch_items, ai, ti, si, all_shows,
                   merchandise_cache, all_data, ret, reqlog, last,
                   start_date, end_date, closed, sold_arg, sold_ret, export>>

\* FirstSettlement reading settlements[-1].
LastSettlement(show) == show.settlements[Len(show.settlements)].mainCounts

\* result['data']['show']['settlements'][0]['mainCounts']
FirstSettlement(show) == show.settlements[1].mainCounts

\* One iteration of fetch_counts' loop (settlements[0] of an empty list is an
\* IndexError); when it returns, the show's counts are joined to the
\* merchandise and the loop moves to the next show.
FetchCounts ==
    /\ pc = "fetch_counts"
    /\ \E response \in Responses(cursor) :
        /\ Issue(Request("counts", [uuid |-> all_shows[si].uuid, cursor |-> cursor]),
                 response)
        /\ LET result == ExecuteQuery(response) IN
           IF result.raised THEN Raise
           ELSE IF result.value.data.settlements = <<>> THEN Raise
           ELSE LET mainCounts == FirstSettlement(result.value.data)
                    fetched == Extend(counts, mainCounts.nodes)
                    merchandise == merchandise_cache[all_shows[si].account.uuid] IN
                /\ counts' = fetched
                /\ IF LoopBreaks(mainCounts.pageInfo)
                   THEN /\ pc' = "for_show"
                        /\ si' = si + 1
                        /\ cursor' = cursor
                        /\ all_data' = Extend(all_data,
                                              JoinShow(all_shows[si], merchandise, fetched))
                        /\ Close("counts", fetched)
                   ELSE /\ pc' = pc
                        /\ si' = si
                        /\ cursor' = NextCursor(mainCounts.pageInfo)
                        /\ all_data' = all_data
                        /\ closed' = closed
                /\ UNCHANGED <<accounts, tours, shows, merch_items, ai, ti, all_shows,
                               merchandise_cache, ret, srv, start_date, end_date>>

\* calculate_sold called on one count record.
CalculateSoldCall ==
    /\ pc = "calculate_sold"
    /\ sold_ret' = CalculateSold(sold_arg)
    /\ pc' = "sold"
    /\ UNCHANGED <<locals, ret, srv, reqlog, opened, closed, last, sold_arg,
                   start_date, end_date, export>>

\* ------------------------------------------------------------------ main
\* main up to the fetch: the two date inputs are read; start_date > end_date
\* shows the error and returns; without the Fetch Data button nothing is
\* fetched (session_state.data stays None and main returns); with it
\* fetch_data is called on the two dates.
Main ==
    /\ pc = "idle"
    /\ \E d \in DateRanges, fetch_button \in BOOLEAN :
        IF d[1] > d[2]
        THEN /\ pc' = "date_error"
             /\ start_date' = d[1] /\ end_date' = d[2]
             /\ UNCHANGED <<locals, ret, srv, reqlog, opened, closed, last,
                            sold_arg, sold_ret, export>>
        ELSE IF ~fetch_button
        THEN /\ pc' = "main_returned"
             /\ start_date' = d[1] /\ end_date' = d[2]
             /\ UNCHANGED <<locals, ret, srv, reqlog, opened, closed, last,
                            sold_arg, sold_ret, export>>
        ELSE FetchAllData(d[1], d[2])

\* pd.DataFrame(list of dicts): the columns are the dicts' keys in insertion
\* order, no column at all for the empty list; a row maps column to value.
RecordColumns ==
    <<"Band", "TourName", "Venue", "ProductName", "Size", "SKU", "In", "Out", "Sold",
      "ShowDate", "Price">>
DataFrame(data) ==
    [columns |-> IF data = <<>> THEN <<>> ELSE RecordColumns,
     rows |-> [i \in DOMAIN data |-> [c \in Range(RecordColumns) |-> data[i][c]]]]

\* df[name] = values: a new column goes last, an existing one is overwritten.
SetColumn(df, name, values) ==
    [columns |-> IF name \in Range(df.columns) THEN df.columns
                 ELSE Append(df.columns, name),
     rows |-> [i \in DOMAIN df.rows |-> (name :> values[i]) @@ df.rows[i]]]

\* df[[...]]: the named columns, in the order named.
SelectColumns(df, names) ==
    [columns |-> names,
     rows |-> [i \in DOMAIN df.rows |-> [c \in Range(names) |-> df.rows[i][c]]]]

\* df.insert(loc, name, value): the column is put at position loc, counted
\* from 0, with the one value in every row.
InsertColumn(df, loc, name, value) ==
    [columns |-> SubSeq(df.columns, 1, loc) \o <<name>>
                 \o SubSeq(df.columns, loc + 1, Len(df.columns)),
     rows |-> [i \in DOMAIN df.rows |-> (name :> value) @@ df.rows[i]]]

\* Negate with the sign kept.
NegateKeepsSign(x) == x
\* -df['Sold']
Negate(x) == 0 - x

\* The export table of main, lines 361-366, for data that is not empty.
ExportOf(data) ==
    LET df0 == DataFrame(data)
        df1 == SetColumn(df0, "Location",
                   [i \in DOMAIN df0.rows |->
                       df0.rows[i]["Band"] \o " - " \o df0.rows[i]["TourName"]])
        df2 == SetColumn(df1, "Quantity", [i \in DOMAIN df1.rows |-> Negate(df1.rows[i]["Sold"])])
        df3 == SetColumn(df2, "Reason", [i \in DOMAIN df2.rows |-> "Nightly Sales"])
        df4 == SelectColumns(df3, <<"SKU", "Quantity", "Location", "Reason">>)
    IN InsertColumn(df4, 1, "Action", "Replace")

\* main after the fetch: session_state.data is what fetch_data returned, and
\* the export table is built from it; df['Band'] of a table with no column
\* (no record was fetched) is a KeyError.
MainExport ==
    /\ pc = "done"
    /\ IF "Band" \notin Range(DataFrame(ret.value).columns)
       THEN /\ pc' = "raised"
            /\ export' = export
       ELSE /\ pc' = "exported"
            /\ export' = [made |-> TRUE, table |-> ExportOf(ret.value)]
    /\ UNCHANGED <<locals, ret, srv, reqlog, opened, closed, last, sold_arg, sold_ret,
                   start_date, end_date>>

\* ---------------------------------------------------------- specification
\* A fetcher has been constructed; nothing has been fetched.
Init ==
    /\ pc = "idle"
    /\ start_date = Null /\ end_date = Null
    /\ cursor = Null
    /\ accounts = <<>> /\ tours = <<>> /\ shows = <<>>
    /\ merch_items = <<>> /\ counts = <<>>
    /\ ai = 0 /\ ti = 0 /\ si = 0
    /\ all_shows = <<>>
    /\ merchandise_cache = <<>>
    /\ all_data = <<>>
    /\ ret = NoReturn
    /\ srv = <<>>
    /\ reqlog = <<>>
    /\ opened = <<>>
    /\ closed = <<>>
    /\ last = NoCall
    /\ sold_arg = <<>>
    /\ sold_ret = 0
    /\ export = NoExport

Next ==
    \/ FetchData
    \/ FetchAccounts
    \/ ForAccount
    \/ FetchTours
    \/ ForTour
    \/ FetchShows
    \/ ForShow
    \/ FetchMerchandise
    \/ EnterCounts
    \/ FetchCounts

Spec == Init /\ [][Next]_vars

\* The program run through main: the fetch, then the export.
NextMain ==
    \/ Main
    \/ FetchAccounts
    \/ ForAccount
    \/ FetchTours
    \/ ForTour
    \/ FetchShows
    \/ ForShow
    \/ FetchMerchandise
    \/ EnterCounts
    \/ FetchCounts
    \/ MainExport

SpecMain == Init /\ [][NextMain]_vars

\* fetch_accounts alone; every iteration of its loop that can run does run.
NextAccounts ==
    \/ FetchData
    \/ FetchAccounts

SpecAccounts == Init /\ [][NextAccounts]_vars /\ WF_vars(FetchAccounts)

\* calculate_sold alone, on every count record of SoldInputs.
InitSold ==
    /\ pc = "calculate_sold"
    /\ start_date = Null /\ end_date = Null
    /\ cursor = Null
    /\ accounts = <<>> /\ tours = <<>> /\ shows = <<>>
    /\ merch_items = <<>> /\ counts = <<>>
    /\ ai = 0 /\ ti = 0 /\ si = 0
    /\ all_shows = <<>>
    /\ merchandise_cache = <<>>
    /\ all_data = <<>>
    /\ ret = NoReturn
    /\ srv = <<>>
    /\ reqlog = <<>>
    /\ opened = <<>>
    /\ closed = <<>>
    /\ last = NoCall
    /\ sold_arg \in SoldInputs
    /\ sold_ret = 0
    /\ export = NoExport

NextSold == CalculateSoldCall

SpecSold == InitSold /\ [][NextSold]_vars

\* fetch_all_data from the point where fetch_shows_in_date_range has returned
\* one of the show lists of ShowsInRange (the logs start there).
InitJoin ==
    /\ pc = "for_show"
    /\ start_date = 1 /\ end_date = 2
    /\ cursor = Null
    /\ accounts = <<>> /\ tours = <<>> /\ shows = <<>>
    /\ merch_items = <<>> /\ counts = <<>>
    /\ ai = 0 /\ ti = 0 /\ si = 1
    /\ all_shows \in ShowsInRange
    /\ merchandise_cache = <<>>
    /\ all_data = <<>>
    /\ ret = NoReturn
    /\ srv = <<>>
    /\ reqlog = <<>>
    /\ opened = <<>>
    /\ closed = <<>>
    /\ last = NoCall
    /\ sold_arg = <<>>
    /\ sold_ret = 0
    /\ export = NoExport

NextJoin ==
    \/ ForShow
    \/ FetchMerchandise
    \/ EnterCounts
    \/ FetchCounts

SpecJoin == InitJoin /\ [][NextJoin]_vars

\* ================================================================ claims
\* The nodes a collector reads from one page of its collection.
NodesOfPage(kind, page) ==
    IF kind = "counts" THEN page.settlements[1].mainCounts.nodes ELSE page.nodes

AllNodes(o) == Flatten([j \in DOMAIN o.pages |-> NodesOfPage(o.kind, o.pages[j])])

\* C1: a collector that returns has issued one request per page of its
\* collection and returns the pages' nodes concatenated in page order (the
\* i-th collector return belongs to the i-th collection started).
C1_PagesInOrder ==
    \A i \in DOMAIN closed :
        /\ closed[i].kind = opened[i].kind
        /\ closed[i].result = AllNodes(opened[i])
        /\ closed[i].after - opened[i].before = Len(opened[i].pages)

C1_TwoPagedCollections ==
    \E i, j \in DOMAIN closed :
        /\ closed[i].kind = "shows" /\ Len(opened[i].pages) = 2
        /\ closed[i].result = <<S1, S2>>
        /\ closed[j].kind = "counts" /\ Len(opened[j].pages) = 2
        /\ Len(closed[j].result) = 2

\* C2: calculate_sold returns countIn + the add quantities - countOut - comps,
\* a missing or None number counting as 0.
ZeroIfAbsent(d, key) ==
    IF key \in DOMAIN d THEN (IF d[key] = Null THEN 0 ELSE d[key]) ELSE 0

ExpectedSold(c) ==
    LET adds == IF "merchAdds" \in DOMAIN c THEN c.merchAdds ELSE <<>> IN
    ZeroIfAbsent(c, "countIn")
    + SumSeq([i \in DOMAIN adds |-> ZeroIfAbsent(adds[i], "quantity")])
    - ZeroIfAbsent(c, "countOut")
    - ZeroIfAbsent(c, "comps")

C2_SoldFormula == pc = "sold" => sold_ret = ExpectedSold(sold_arg)

C2_NullCountOut ==
    /\ pc = "sold"
    /\ sold_arg = [countIn |-> 10, countOut |-> Null, comps |-> 2, merchAdds |-> <<>>]
    /\ sold_ret = 8

\* C3: a request that fails (the call does not complete, the status is not
\* 200, the response carries errors) makes fetch_all_data raise: nothing is
\* returned then or later, and no request follows it.
FailingResponse(r) ==
    \/ ~r.completed
    \/ r.status_code # HTTP_OK
    \/ ("errors" \in DOMAIN r.body /\ r.body.errors # <<>>)

C3_FailureAborts ==
    [][/\ (reqlog' # reqlog /\ FailingResponse(last'.response))
            => (pc' = "raised" /\ ~ret'.returned /\ Len(reqlog') = Len(reqlog) + 1)
       /\ pc = "raised" => (pc' = "raised" /\ reqlog' = reqlog /\ ret' = ret)]_vars

C3_FailsWithRecordsInHand ==
    /\ pc = "raised"
    /\ ~last.response.completed
    /\ all_data # <<>>
    /\ ~ret.returned
    /\ Len(reqlog) >= 6

\* C4: no account uuid has its merchandise collection started twice, and
\* every show processed so far has had its account's merchandise fetched
\* exactly once.
MerchFetches(uuid) ==
    Cardinality({i \in DOMAIN opened :
                    opened[i].kind = "merchandise" /\ opened[i].key = uuid})

C4_MerchandiseOncePerAccount ==
    /\ \A i, j \in DOMAIN opened :
          (opened[i].kind = "merchandise" /\ opened[j].kind = "merchandise"
           /\ opened[i].key = opened[j].key) => i = j
    /\ \A i \in DOMAIN all_shows :
          i < si => MerchFetches(all_shows[i].account.uuid) = 1

C4_InterleavedAccounts ==
    /\ pc = "done"
    /\ Len(all_shows) = 3
    /\ all_shows[1].account.uuid = "a1"
    /\ all_shows[2].account.uuid = "a2"
    /\ all_shows[3].account.uuid = "a1"
    /\ MerchFetches("a1") = 1 /\ MerchFetches("a2") = 1
    /\ Len(reqlog) = 5

\* The count lists fetch_counts has returned, one per show processed.
CountsClosed == SelectSeq(closed, LAMBDA c : c.kind = "counts")

\* Some variant of the merchandise has the count's merchVariantUuid.
Matched(merchandise, c) ==
    \E m \in DOMAIN merchandise : \E v \in DOMAIN merchandise[m].merchVariants :
        merchandise[m].merchVariants[v].uuid = c.merchVariantUuid

MerchandiseOfShow(k) == merchandise_cache[all_shows[k].account.uuid]

\* The counts of the k-th show that match its account's merchandise, each
\* with its show.
MatchedOfShow(k) ==
    LET hits == SelectSeq(CountsClosed[k].result,
                          LAMBDA c : Matched(MerchandiseOfShow(k), c))
    IN [n \in DOMAIN hits |-> [show |-> all_shows[k], count |-> hits[n]]]

MatchedSoFar == Flatten([k \in DOMAIN CountsClosed |-> MatchedOfShow(k)])

\* C5: a count that matches no variant of the account's merchandise adds no
\* record and stops nothing: after any number of shows, all_data holds one
\* record for each matching count of those shows, in order, and no other.
C5_UnmatchedSkipped ==
    /\ Len(all_data) = Len(MatchedSoFar)
    /\ \A n \in DOMAIN all_data :
          /\ all_data[n].Sold = ExpectedSold(MatchedSoFar[n].count)
          /\ all_data[n].In = ZeroIfAbsent(MatchedSoFar[n].count, "countIn")
          /\ all_data[n].ShowDate = MatchedSoFar[n].show.showDate

C5_MissThenHits ==
    /\ Len(CountsClosed) = 2
    /\ CountsClosed[1].result = <<K9, K2>>
    /\ CountsClosed[2].result = <<K1>>
    /\ MerchandiseOfShow(1) # <<>>
    /\ Len(all_data) = 2
    /\ all_data[1].SKU = "B2"
    /\ pc # "raised"

\* C6: for a show with two settlement entries fetch_counts returns the count
\* nodes of the first entry, page after page, each request carrying the first
\* entry's endCursor and the loop ending on the first entry's hasNextPage;
\* no count of the second entry is returned or joined.
TwoSettlements(o) ==
    o.kind = "counts" /\ \A j \in DOMAIN o.pages : Len(o.pages[j].settlements) = 2

OtherCounts(o) ==
    UNION {Range(o.pages[j].settlements[2].mainCounts.nodes) : j \in DOMAIN o.pages}

C6_FirstSettlementOnly ==
    \A i \in DOMAIN closed :
        TwoSettlements(opened[i]) =>
            LET o == opened[i]
                first(j) == o.pages[j].settlements[1].mainCounts IN
            /\ closed[i].result = Flatten([j \in DOMAIN o.pages |-> first(j).nodes])
            /\ Range(closed[i].result) \cap OtherCounts(o) = {}
            /\ closed[i].after - o.before = Len(o.pages)
            /\ \A j \in DOMAIN o.pages :
                  /\ reqlog[o.before + j].variables.cursor =
                        (IF j = 1 THEN Null ELSE first(j - 1).pageInfo.endCursor)
                  /\ first(j).pageInfo.hasNextPage = (j < Len(o.pages))
            /\ \A n \in DOMAIN all_data : all_data[n].In \notin {77, 78}

C6_TwoEntriesTwoPages ==
    \E i \in DOMAIN closed :
        /\ TwoSettlements(opened[i])
        /\ Len(opened[i].pages) = 2
        /\ closed[i].result = <<K9, K2>>
        /\ opened[i].pages[1].settlements[2].mainCounts.pageInfo.hasNextPage = FALSE
        /\ opened[i].pages[2].settlements[2].mainCounts.pageInfo.hasNextPage = TRUE
        /\ all_data # <<>>

\* The variant a matching count is joined to: the first variant with the
\* count's uuid in the first item of the merchandise that holds one.
MatchedVariant(merchandise, c) ==
    LET m == CHOOSE a \in DOMAIN merchandise :
                 /\ HasVariant(merchandise[a], c.merchVariantUuid)
                 /\ \A b \in 1..(a - 1) : ~HasVariant(merchandise[b], c.merchVariantUuid)
        vs == merchandise[m].merchVariants
        v == CHOOSE a \in DOMAIN vs :
                 /\ vs[a].uuid = c.merchVariantUuid
                 /\ \A b \in 1..(a - 1) : vs[b].uuid # c.merchVariantUuid
    IN vs[v]

\* C7: the Price of every record is the count's priceOverride when that is
\* not None (0 included), else the matched variant's catalog price.
ClaimedPrice(c, variant) ==
    IF c.priceOverride # Null THEN c.priceOverride ELSE variant.price

C7_PriceResolution ==
    Len(all_data) = Len(MatchedSoFar)
    => \A n \in DOMAIN all_data :
          all_data[n].Price =
              ClaimedPrice(MatchedSoFar[n].count,
                           MatchedVariant(merchandise_cache[MatchedSoFar[n].show.account.uuid],
                                          MatchedSoFar[n].count))

\* C8: execute_query raises when the status is not 200 or the errors list is
\* non-empty, and returns the body unchanged in every other completed call.
C8_QueryContract ==
    (last.called /\ last.response.completed)
    => IF \/ last.response.status_code # HTTP_OK
          \/ ("errors" \in DOMAIN last.response.body
              /\ last.response.body.errors # <<>>)
       THEN last.outcome.raised
       ELSE ~last.outcome.raised /\ last.outcome.value = last.response.body

\* C9: a collection with no children, all of whose pages were answered, has
\* been returned as the empty list, and nothing was raised on it.
ZeroChildren(o) ==
    \A j \in DOMAIN o.pages :
        IF o.kind = "counts"
        THEN \A e \in DOMAIN o.pages[j].settlements :
                 o.pages[j].settlements[e].mainCounts.nodes = <<>>
        ELSE o.pages[j].nodes = <<>>

C9_EmptyCollections ==
    \A i \in DOMAIN opened :
        (/\ ZeroChildren(opened[i])
         /\ Len(reqlog) - opened[i].before >= Len(opened[i].pages)
         /\ ~(i = Len(opened) /\ last.outcome.raised))
        => /\ i \in DOMAIN closed
           /\ closed[i].result = <<>>
           /\ (i = Len(opened) => pc # "raised")

\* The collections of one kind, started and returned, in order.
OpenedOf(kind) == SelectSeq(opened, LAMBDA o : o.kind = kind)
ClosedOf(kind) == SelectSeq(closed, LAMBDA c : c.kind = kind)

\* The tours fetched for the i-th account, and the place among the shows
\* collections of the one fetched for its j-th tour.
ToursFetched(i) == ClosedOf("tours")[i].result
ShowsPlace(i, j) == SumSeq([a \in 1..(i - 1) |-> Len(ToursFetched(a))]) + j
ShowsFetched(i, j) == ClosedOf("shows")[ShowsPlace(i, j)].result

WithOwners(show, account, tour) ==
    [uuid |-> show.uuid, showDate |-> show.showDate, location |-> show.location,
     account |-> account, tour |-> tour]

ShowsOfTour(i, j) ==
    [k \in DOMAIN ShowsFetched(i, j) |->
        WithOwners(ShowsFetched(i, j)[k], accounts[i], ToursFetched(i)[j])]
ShowsOfAccount(i) == Flatten([j \in DOMAIN ToursFetched(i) |-> ShowsOfTour(i, j)])

TraversalDone == pc \in {"for_show", "fetch_merchandise", "enter_counts", "fetch_counts", "done"}

\* C10: once fetch_shows_in_date_range has returned, all_shows is, account by
\* account and tour by tour in fetch order, every show fetched for the tour
\* (tours were fetched for each account's uuid, shows for each tour's uuid),
\* each with the account and tour it was fetched under, none dropped.
C10_FlatShowsWithOwners ==
    TraversalDone =>
        /\ accounts = ClosedOf("accounts")[1].result
        /\ Len(ClosedOf("tours")) = Len(accounts)
        /\ \A i \in DOMAIN accounts :
              /\ OpenedOf("tours")[i].key = accounts[i].uuid
              /\ \A j \in DOMAIN ToursFetched(i) :
                    OpenedOf("shows")[ShowsPlace(i, j)].key = ToursFetched(i)[j].uuid
        /\ Len(ClosedOf("shows")) = ShowsPlace(Len(accounts) + 1, 0)
        /\ all_shows = Flatten([i \in DOMAIN accounts |-> ShowsOfAccount(i)])

C10_TwoAccountsTwoTours ==
    /\ pc = "for_show"
    /\ si = 1
    /\ Len(all_shows) >= 3
    /\ \E m, n \in DOMAIN all_shows :
          /\ m < n
          /\ all_shows[m].account = A1 /\ all_shows[m].tour = T2
          /\ all_shows[n].account = A2 /\ all_shows[n].tour = T1
          /\ all_shows[m].uuid = all_shows[n].uuid

\* C11: whenever a request has been issued, the date range of the call is in
\* order: start_date <= end_date, also in the dates a shows request carries.
C11_NoRequestForReversedRange ==
    reqlog # <<>> =>
        /\ start_date <= end_date
        /\ \A i \in DOMAIN reqlog :
              reqlog[i].query = "shows" =>
                  reqlog[i].variables.startDate <= reqlog[i].variables.endDate

\* C12: the export table has the columns SKU, Action, Quantity, Location,
\* Reason in this order and one row per record fetch_data returned, in order;
\* a row holds the record's SKU, 'Replace', the record's Sold negated, the
\* record's Band, ' - ' and Tour Name joined, and 'Nightly Sales'.
C12_ExportRows ==
    /\ export.made <=> pc = "exported"
    /\ export.made =>
        /\ export.table.columns = <<"SKU", "Action", "Quantity", "Location", "Reason">>
        /\ Len(export.table.rows) = Len(ret.value)
        /\ \A i \in DOMAIN ret.value :
              export.table.rows[i] =
                  [SKU |-> ret.value[i].SKU,
                   Action |-> "Replace",
                   Quantity |-> 0 - ret.value[i].Sold,
                   Location |-> ret.value[i].Band \o " - " \o ret.value[i].TourName,
                   Reason |-> "Nightly Sales"]

C12_TwoRowsBothSigns ==
    /\ export.made
    /\ Len(export.table.rows) = 2
    /\ export.table.rows[1] =
           [SKU |-> "A1", Action |-> "Replace", Quantity |-> 2,
            Location |-> "BandX - TourY", Reason |-> "Nightly Sales"]
    /\ export.table.rows[2].Quantity = -3
    /\ export.table.rows[2].SKU = "B2"

\* The requests of the i-th collection started: those issued after it was
\* entered and before the next collection was.
FirstRequest(i) == opened[i].before + 1
LastRequest(i) == IF i < Len(opened) THEN opened[i + 1].before ELSE Len(reqlog)

\* The scope key a request carries.
KeyOf(req) ==
    IF req.query = "accounts" THEN "organization"
    ELSE IF req.query = "tours" THEN req.variables.accountUuid
    ELSE IF req.query = "shows" THEN req.variables.tourUuid
    ELSE req.variables.uuid

\* The pageInfo the collector was given in answer to a request of collection o.
PageInfoAnswered(o, req) ==
    LET page == o.pages[PageIndexOf(req.variables.cursor)] IN
    IF o.kind = "counts" THEN page.settlements[1].mainCounts.pageInfo ELSE page.pageInfo

\* C13: of the requests of one collection the first carries cursor None and
\* each later one the endCursor answered to the one before it; all carry the
\* collection's query and scope key, and a shows request the call's dates.
C13_CursorChain ==
    \A i \in DOMAIN opened : \A j \in FirstRequest(i)..LastRequest(i) :
        /\ reqlog[j].query = opened[i].kind
        /\ KeyOf(reqlog[j]) = opened[i].key
        /\ reqlog[j].variables.cursor =
               (IF j = FirstRequest(i) THEN Null
                ELSE PageInfoAnswered(opened[i], reqlog[j - 1]).endCursor)
        /\ opened[i].kind = "shows" =>
               /\ reqlog[j].variables.startDate = start_date
               /\ reqlog[j].variables.endDate = end_date

C13_SecondPagesAsked ==
    \E i, k \in DOMAIN opened :
        /\ opened[i].kind = "shows" /\ opened[k].kind = "merchandise"
        /\ LastRequest(i) = FirstRequest(i) + 1
        /\ reqlog[FirstRequest(i)].variables.cursor = Null
        /\ reqlog[LastRequest(i)].variables.cursor = EndCursorOf(1)
        /\ reqlog[LastRequest(i)].variables.tourUuid = "t1"
        /\ LastRequest(k) = FirstRequest(k) + 1
        /\ reqlog[LastRequest(k)].variables = [uuid |-> "a1", cursor |-> EndCursorOf(1)]

\* Some page of the collection reports hasNextPage false; none does.
ReportsLastPage(pages) == \E j \in DOMAIN pages : ~pages[j].pageInfo.hasNextPage
NeverLastPage(pages) == \A j \in DOMAIN pages : pages[j].pageInfo.hasNextPage

\* fetch_accounts has returned; the answer to its last request was a page.
AccountsReturned == pc = "for_account"
LastAnswerIsPage == last.called /\ ~last.outcome.raised

\* Every request but the last was answered by a page with hasNextPage true;
\* fetch_accounts has returned exactly when the last answer is a page with
\* hasNextPage false, and raised exactly when the last request failed.
StopsAtLastPage ==
    opened # <<>> =>
        /\ \A j \in DOMAIN reqlog :
              j < Len(reqlog) => PageInfoAnswered(opened[1], reqlog[j]).hasNextPage
        /\ AccountsReturned <=>
              (LastAnswerIsPage
               /\ ~PageInfoAnswered(opened[1], reqlog[Len(reqlog)]).hasNextPage)
        /\ pc = "raised" <=> (last.called /\ last.outcome.raised)
        /\ AccountsReturned => (closed # <<>> /\ closed[1].after = Len(reqlog))

C15_OneRecordPerMatch ==
    /\ Len(all_data) = Len(MatchedSoFar)
    /\ \A n \in DOMAIN all_data :
          LET show == MatchedSoFar[n].show
              count == MatchedSoFar[n].count IN
          /\ all_data[n].Band = show.account.artistName
          /\ all_data[n].TourName = show.tour.tourName
          /\ all_data[n].Venue = Venue(show.location)
          /\ all_data[n].Out = ZeroIfAbsent(count, "countOut")
          /\ all_data[n].Sold = ExpectedSold(count)
    /\ pc = "done" => ret = Returned(all_data)

C15_TwoToursOneMiss ==
    /\ pc = "done"
    /\ Len(CountsClosed) = 2
    /\ CountsClosed[1].result = <<K9, K2>>
    /\ CountsClosed[2].result = <<K1>>
    /\ all_shows[1].tour = T1 /\ all_shows[2].tour = T2
    /\ Len(all_data) = 2
    /\ all_data[1].TourName = "TourY" /\ all_data[1].Out = 1
    /\ all_data[2].TourName = "TourZ" /\ all_data[2].Out = 0

\* The first item of the merchandise holding a variant with the count's uuid.
MatchedItem(merchandise, c) ==
    merchandise[CHOOSE a \in DOMAIN merchandise :
                    /\ HasVariant(merchandise[a], c.merchVariantUuid)
                    /\ \A b \in 1..(a - 1) : ~HasVariant(merchandise[b], c.merchVariantUuid)]

\* C16: for every count fetched for which the join finds an item, the lookup
\* of the variant inside that item finds one; no record carries 'N/A' as Size,
\* SKU or Price, and the Product Name, Size and SKU of a record are those of
\* the first item of the catalog that holds a variant with the count's uuid
\* and of that variant.
C16_VariantAlwaysFound ==
    /\ \A k \in DOMAIN CountsClosed : \A c \in Range(CountsClosed[k].result) :
          LET merch_item == MerchItemOf(MerchandiseOfShow(k), c) IN
          merch_item.some => VariantOf(merch_item.value, c).some
    /\ Len(all_data) = Len(MatchedSoFar)
    /\ \A n \in DOMAIN all_data :
          LET merchandise == merchandise_cache[MatchedSoFar[n].show.account.uuid]
              count == MatchedSoFar[n].count IN
          /\ all_data[n].Size # NAText
          /\ all_data[n].SKU # NAText
          /\ all_data[n].Price # PriceNA
          /\ all_data[n].ProductName = MatchedItem(merchandise, count).name
          /\ all_data[n].Size = MatchedVariant(merchandise, count).size
          /\ all_data[n].SKU = MatchedVariant(merchandise, count).sku

C16_FirstOfTwoItems ==
    /\ pc = "done"
    /\ \E n \in DOMAIN all_data :
          /\ MatchedSoFar[n].count.merchVariantUuid = "v1"
          /\ all_data[n].ProductName = "Tee"
          /\ all_data[n].SKU = "A1"
          /\ all_data[n].Size = "M"
          /\ HasVariant(M2, "v1")
          /\ M2 \in Range(merchandise_cache[MatchedSoFar[n].show.account.uuid])

\* The phase a request belongs to.
Phase(query) ==
    IF query = "accounts" THEN 1
    ELSE IF query \in {"tours", "shows"} THEN 2
    ELSE 3

\* The merchandise of the account has been fetched whole by request number n.
MerchandiseCompleteBy(account_uuid, n) ==
    \E i \in DOMAIN closed :
        /\ opened[i].kind = "merchandise"
        /\ opened[i].key = account_uuid
        /\ closed[i].after <= n

\* C17: in the order the requests were issued, every accounts request comes
\* before every tours and shows request, and every one of these before every
\* merchandise and counts request; when the counts of a show are entered (the
\* k-th counts collection is the k-th show's), the merchandise of the show's
\* account has been fetched whole.
C17_RequestPhases ==
    /\ \A i, j \in DOMAIN reqlog :
          i < j => Phase(reqlog[i].query) <= Phase(reqlog[j].query)
    /\ \A k \in DOMAIN OpenedOf("counts") :
          /\ OpenedOf("counts")[k].key = all_shows[k].uuid
          /\ MerchandiseCompleteBy(all_shows[k].account.uuid, OpenedOf("counts")[k].before)

C17_AllFivePhases ==
    /\ pc = "done"
    /\ Len(opened[1].pages) = 2
    /\ {reqlog[i].query : i \in DOMAIN reqlog} =
           {"accounts", "tours", "shows", "merchandise", "counts"}
    /\ Len(OpenedOf("counts")) = 2
    /\ Len(OpenedOf("merchandise")) = 1

\* The accounts that own a show of all_shows.
OwningAccounts == {all_shows[k].account.uuid : k \in DOMAIN all_shows}

\* C18: when fetch_all_data has returned, the accounts whose merchandise was
\* fetched are exactly those owning a show of all_shows (an account fetched
\* in the traversal that owns none had no merchandise request, one that owns
\* a show had, whatever the show's counts), and the counts collections
\* fetched are, one for one and in order, those of the shows of all_shows.
C18_FetchedForReturnedShows ==
    pc = "done" =>
        /\ {o.key : o \in Range(OpenedOf("merchandise"))} = OwningAccounts
        /\ \A a \in Range(accounts) :
              MerchFetches(a.uuid) = (IF a.uuid \in OwningAccounts THEN 1 ELSE 0)
        /\ Len(OpenedOf("counts")) = Len(all_shows)
        /\ Len(CountsClosed) = Len(all_shows)
        /\ \A k \in DOMAIN all_shows : OpenedOf("counts")[k].key = all_shows[k].uuid

C18_ShowlessAccountAndCountlessShow ==
    /\ pc = "done"
    /\ accounts = <<A1, A2>>
    /\ OwningAccounts = {"a2"}
    /\ MerchFetches("a1") = 0
    /\ MerchFetches("a2") = 1
    /\ Len(all_shows) = 1
    /\ CountsClosed[1].result = <<>>
    /\ merchandise_cache["a2"] # <<>>
====
